---- MODULE Spec2Model ----
(***************************************************************************)
(* Model of src/utils.py: CachedImageDatasetWriter (chunked on-disk        *)
(* dataset writer) and CachedImageDataset (double-buffered reader whose    *)
(* chunks are loaded by background processes).                             *)
(*                                                                         *)
(* Chunk indices, slot indices and sample indices are 0-based as in the    *)
(* source; TLA+ sequences are 1-based, so element i of a buffer b is       *)
(* b[i + 1].  A sample is identified by the 1-based position of its source *)
(* file in walk order (0 is the all-zero tensor of torch.zeros).           *)
(***************************************************************************)
EXTENDS Integers, Sequences, FiniteSets, TLC

\* ------------------------------------------------------------------ bounds
MaxN == 5
MaxChunkSize == 2
MaxEntries == 2
MaxPerDir == 3
MaxSessions == 2
MaxPhases == 3
MaxProcs == 2
MaxSteps == 4
MaxLoaderLen == 3
MaxPulls == 8

VARIABLES
    \* the source tree: one entry per name in the root directory; an entry
    \* k >= 0 is a class subdirectory holding k files, NotDir is a plain file
    tree,
    \* CachedImageDatasetWriter fields
    n, chunk_size, chunk_idx, labels_lookup, label_id, global_cursor,
    \* locals of CachedImageDatasetWriter.save
    wpc, cursor, chunk, ent, fidx,
    \* durable storage: the .x.pt / .y.pt records, info.dat and lut.dat
    xfiles, yfiles, info, lut,
    \* history: the (sample, label) pairs passed to chunk.add, in order; the
    \* indices of the chunks flushed by torch.save, in order; the exception
    \* raised by Image.open or xform, with the position of the file
    written, flushed, xerr,
    \* CachedImageDataset fields
    cur_id, data_selector, data, labels,
    \* the generator of CachedImageDataset.__iter__
    pc, i, bound,
    \* the running _load calls (background processes and the initial call)
    loaders,
    \* history of the reader: the number of generators started and of drain
    \* phases begun by the current one; the last pair yielded (with the chunk
    \* last loaded into its slot, and whether the last load into that slot had
    \* failed, at the time of the yield); the pairs yielded in the first
    \* n_files drain phases of the current generator; per slot the chunk of
    \* the last completed load; the slots whose last load failed
    session, phase, lastYield, out, slotChunk, failedSlots,
    \* DataGenerator: the field self.steps; the loader as the number of its
    \* items; the generator of data_feeder: its position, its parameter
    \* steps, and the index in the loader of the item last taken
    self_steps, loader_len, fpc, steps, lpos,
    \* history of the feeder: the argument of the call, the items yielded
    requested, yielded

wvars == <<n, chunk_size, chunk_idx, labels_lookup, label_id, global_cursor,
           wpc, cursor, chunk, ent, fidx, xfiles, yfiles, info, lut, written,
           flushed, xerr>>
rvars == <<cur_id, data_selector, data, labels, pc, i, bound, loaders,
           session, phase, lastYield, out, slotChunk, failedSlots>>
fvars == <<self_steps, loader_len, fpc, steps, lpos, requested, yielded>>
vars == <<tree, wvars, rvars, fvars>>

NotDir == -1
\* a record that has not been written (info.dat, lut.dat)
NoInfo == [n |-> -1, sizes |-> <<>>]
NoLut == <<>>
NoError == [kind |-> "none", at |-> 0]
NoYield == [slot |-> -1, i |-> -1, sample |-> 0, label |-> 0, chunk |-> -1,
            afterFailure |-> FALSE]

RECURSIVE Sum(_)
Sum(s) == IF s = <<>> THEN 0 ELSE Head(s) + Sum(Tail(s))

Repeat(v, k) == [j \in 1..k |-> v]

Min(a, b) == IF a <= b THEN a ELSE b

\* ------------------------------------------------- CachedImageDatasetWriter

\* a mutant of ChunkSizes: the final chunk is declared full
ChunkSizesFullTail(total, c) == Repeat(c, total \div c) \o <<c>>

\* line 181: [chunk_size] * (n // chunk_size) + [n % chunk_size]
ChunkSizes(total, c) == Repeat(c, total \div c) \o <<total % c>>

\* self.chunk_sizes, fixed by __init__
chunk_sizes == ChunkSizes(n, chunk_size)

\* self.chunk_sizes[k]; IndexError when k is out of range
HasSize(k) == k >= 0 /\ k < Len(chunk_sizes)
SizeOf(k) == chunk_sizes[k + 1]

\* ImageChunk(size): torch.empty buffers; a chunk is flushed only once every
\* element has been assigned, so the initial contents never reach storage
ImageChunk(size) == [data |-> Repeat(0, size), labels |-> Repeat(0, size)]

\* ImageChunk.add: data[cur] = data; labels[cur] = label
ChunkAdd(c, sample, label, cur) ==
    [data |-> [c.data EXCEPT ![cur + 1] = sample],
     labels |-> [c.labels EXCEPT ![cur + 1] = label]]

Trees == UNION {[1..k -> NotDir..MaxPerDir] : k \in 0..MaxEntries}

\* the number of source files under the class subdirectories
FileCount == Sum([e \in 1..Len(tree) |-> IF tree[e] = NotDir THEN 0 ELSE tree[e]])

WriterInit ==
    /\ tree \in Trees
    /\ n \in 0..MaxN
    /\ chunk_size \in 1..MaxChunkSize
    /\ chunk_idx = 0
    /\ labels_lookup = <<>>
    /\ label_id = 0
    /\ global_cursor = 0
    /\ wpc = "new"
    /\ cursor = 0
    /\ chunk = ImageChunk(0)
    /\ ent = 0
    /\ fidx = 0
    /\ xfiles = <<>>
    /\ yfiles = <<>>
    /\ info = NoInfo
    /\ lut = NoLut
    /\ written = <<>>
    /\ flushed = <<>>
    /\ xerr = NoError

\* save, lines 188-190
SaveBegin ==
    /\ wpc = "new"
    /\ cursor' = 0
    /\ chunk' = ImageChunk(SizeOf(chunk_idx))
    /\ wpc' = "list"
    /\ UNCHANGED <<tree, n, chunk_size, chunk_idx, labels_lookup, label_id,
                   global_cursor, ent, fidx, xfiles, yfiles, info, lut, written,
                   flushed, xerr>>
    /\ UNCHANGED <<rvars, fvars>>

\* save, lines 192-196: the next name of os.listdir(root_path)
SaveNextPath ==
    /\ wpc = "list"
    /\ ent < Len(tree)
    /\ ent' = ent + 1
    /\ IF tree[ent + 1] # NotDir
       THEN /\ labels_lookup' = ((label_id :> ent + 1) @@ labels_lookup)
            /\ fidx' = 0
            /\ wpc' = "walk"
       ELSE UNCHANGED <<labels_lookup, fidx, wpc>>
    /\ UNCHANGED <<tree, n, chunk_size, chunk_idx, label_id, global_cursor,
                   cursor, chunk, xfiles, yfiles, info, lut, written, flushed,
                   xerr>>
    /\ UNCHANGED <<rvars, fvars>>

\* save, lines 198-216: one file of the class subdirectory
SaveFile ==
    /\ wpc = "walk"
    /\ fidx < tree[ent]
    /\ fidx' = fidx + 1
    /\ IF cursor >= Len(chunk.data)
       THEN \* chunk.add raises IndexError (line 202), caught at line 218
            /\ wpc' = "dump"
            /\ UNCHANGED <<chunk, global_cursor, cursor, xfiles, yfiles,
                           chunk_idx, written, flushed>>
       ELSE LET sample == global_cursor + 1
                filled == ChunkAdd(chunk, sample, label_id, cursor)
            IN  /\ global_cursor' = global_cursor + 1
                /\ written' = Append(written, <<sample, label_id>>)
                /\ IF cursor + 1 = SizeOf(chunk_idx)
                   THEN /\ cursor' = 0
                        /\ xfiles' = (chunk_idx :> filled.data) @@ xfiles
                        /\ yfiles' = (chunk_idx :> filled.labels) @@ yfiles
                        /\ flushed' = Append(flushed, chunk_idx)
                        /\ chunk_idx' = chunk_idx + 1
                        /\ IF HasSize(chunk_idx + 1)
                           THEN /\ chunk' = ImageChunk(SizeOf(chunk_idx + 1))
                                /\ wpc' = wpc
                           ELSE \* line 216 raises IndexError
                                /\ chunk' = filled
                                /\ wpc' = "dump"
                   ELSE /\ cursor' = cursor + 1
                        /\ chunk' = filled
                        /\ UNCHANGED <<xfiles, yfiles, chunk_idx, wpc, flushed>>
    /\ UNCHANGED <<tree, n, chunk_size, labels_lookup, label_id, ent, info, lut,
                   xerr>>
    /\ UNCHANGED <<rvars, fvars>>

\* the exceptions Image.open and xform can raise: IndexError, which the
\* handler of line 218 catches, and any other kind
ErrorKinds == {"IndexError", "OSError"}

\* line 218: except IndexError
Caught(kind) == kind = "IndexError"

\* save, lines 199-201: Image.open or xform raises on the next file
SaveFileFails(kind) ==
    /\ wpc = "walk"
    /\ fidx < tree[ent]
    /\ fidx' = fidx + 1
    /\ xerr' = [kind |-> kind, at |-> global_cursor + 1]
    /\ wpc' = IF Caught(kind) THEN "dump" ELSE "raised"
    /\ UNCHANGED <<tree, n, chunk_size, chunk_idx, labels_lookup, label_id,
                   global_cursor, cursor, chunk, ent, xfiles, yfiles, info, lut,
                   written, flushed>>
    /\ UNCHANGED <<rvars, fvars>>

\* a mutant of NextLabelId: the id is not advanced
NextLabelIdSame(id) == id

\* line 217: self.label_id += 1
NextLabelId(id) == id + 1

\* save, line 217: the class subdirectory is exhausted
SaveEndDir ==
    /\ wpc = "walk"
    /\ fidx = tree[ent]
    /\ label_id' = NextLabelId(label_id)
    /\ wpc' = "list"
    /\ UNCHANGED <<tree, n, chunk_size, chunk_idx, labels_lookup, global_cursor,
                   cursor, chunk, ent, fidx, xfiles, yfiles, info, lut, written,
                   flushed, xerr>>
    /\ UNCHANGED <<rvars, fvars>>

\* save, lines 221-225: reached when the listing is exhausted or after the
\* IndexError handler
SaveDump ==
    /\ \/ wpc = "dump"
       \/ wpc = "list" /\ ent = Len(tree)
    /\ info' = [n |-> n, sizes |-> chunk_sizes]
    /\ lut' = <<labels_lookup>>
    /\ wpc' = "done"
    /\ UNCHANGED <<tree, n, chunk_size, chunk_idx, labels_lookup, label_id,
                   global_cursor, cursor, chunk, ent, fidx, xfiles, yfiles, written,
                   flushed, xerr>>
    /\ UNCHANGED <<rvars, fvars>>

\* --------------------------------------------------------- CachedImageDataset

\* self.chunk_sizes and self.n_files, read from info.dat by __init__
r_chunk_sizes == info.sizes
n_files == Len(info.sizes)
RSize(k) == r_chunk_sizes[k + 1]

\* capacity of each of the two slots: chunk_sizes[0] (line 248)
Capacity == RSize(0)

ReaderIdle ==
    /\ cur_id = 0
    /\ data_selector = 0
    /\ data = <<>>
    /\ labels = <<>>
    /\ pc = "none"
    /\ i = 0
    /\ bound = 0
    /\ loaders = {}
    /\ session = 0
    /\ phase = 0
    /\ lastYield = NoYield
    /\ out = <<>>
    /\ slotChunk = <<-1, -1>>
    /\ failedSlots = {}

\* CachedImageDataset.__init__, lines 229-256
ReaderNew ==
    /\ pc = "none"
    /\ info # NoInfo
    /\ cur_id' = 0
    /\ data_selector' = 0
    /\ data' = <<Repeat(0, Capacity), Repeat(0, Capacity)>>
    /\ labels' = <<Repeat(0, Capacity), Repeat(0, Capacity)>>
    /\ pc' = "idle"
    /\ UNCHANGED <<i, bound, loaders, session, phase, lastYield, out,
                   slotChunk, failedSlots>>
    /\ UNCHANGED <<tree, wvars, fvars>>

\* _next_file, lines 260-261
NextFileNoWrap(id) == Min(id + 1, n_files - 1)

NextFile(id) == (id + 1) % n_files

\* _flip_selector / _get_inverted_selector, lines 265 and 268
Inverted(sel) == IF sel = 0 THEN 1 ELSE 0

\* buf[0:size] = rec on a buffer; the slice is clipped to the buffer
SliceLen(buf, size) == Min(size, Len(buf))

\* a mutant of SliceAssign: the rest of the buffer is cleared
SliceAssignClearsRest(buf, size, rec) ==
    [j \in 1..Len(buf) |-> IF j <= SliceLen(buf, size) THEN rec[j] ELSE 0]

SliceAssign(buf, size, rec) ==
    [j \in 1..Len(buf) |-> IF j <= SliceLen(buf, size) THEN rec[j] ELSE buf[j]]

Background == {l \in loaders : ~l.init}

\* the _load call leaves with an exception: a background process dies with
\* it, the initial call raises it into the generator
LoadFails(l) ==
    /\ loaders' = loaders \ {l}
    /\ failedSlots' = failedSlots \cup {l.sel}
    /\ pc' = IF l.init THEN "error" ELSE pc

Step(l, to) == (loaders \ {l}) \cup {[l EXCEPT !.pc = to]}

\* __iter__, line 285: a new generator starts with the call _load(True);
\* an earlier generator of this instance is left suspended at its yield
IterStart ==
    /\ pc \in {"idle", "suspended", "error"}
    /\ session < MaxSessions
    /\ session' = session + 1
    /\ phase' = 0
    /\ loaders' = loaders \cup
          {[id |-> <<session + 1, 0>>, chunk_id |-> 0, sel |-> 0,
            pc |-> "read", init |-> TRUE]}
    /\ pc' = "init"
    /\ i' = 0
    /\ bound' = 0
    /\ out' = <<>>
    /\ lastYield' = NoYield
    /\ UNCHANGED <<cur_id, data_selector, data, labels, slotChunk, failedSlots>>
    /\ UNCHANGED <<tree, wvars, fvars>>

\* _load, lines 271-276: torch.load of the two records of the chunk
LoadRead(l) ==
    /\ l.pc = "read"
    /\ IF l.chunk_id \in DOMAIN xfiles /\ l.chunk_id \in DOMAIN yfiles
       THEN /\ loaders' = Step(l, "wdata")
            /\ UNCHANGED <<failedSlots, pc>>
       ELSE LoadFails(l)
    /\ UNCHANGED <<cur_id, data_selector, data, labels, i, bound, session,
                   phase, lastYield, out, slotChunk>>
    /\ UNCHANGED <<tree, wvars, fvars>>

\* _load, line 277
LoadWriteData(l) ==
    /\ l.pc = "wdata"
    /\ LET buf == data[l.sel + 1]
           x == xfiles[l.chunk_id]
       IN  IF Len(x) = SliceLen(buf, RSize(l.chunk_id))
           THEN /\ data' = [data EXCEPT
                            ![l.sel + 1] = SliceAssign(buf, RSize(l.chunk_id), x)]
                /\ loaders' = Step(l, "wlabels")
                /\ UNCHANGED <<failedSlots, pc>>
           ELSE /\ LoadFails(l)
                /\ UNCHANGED data
    /\ UNCHANGED <<cur_id, data_selector, labels, i, bound, session, phase,
                   lastYield, out, slotChunk>>
    /\ UNCHANGED <<tree, wvars, fvars>>

\* _load, line 278
LoadWriteLabels(l) ==
    /\ l.pc = "wlabels"
    /\ LET buf == labels[l.sel + 1]
           y == yfiles[l.chunk_id]
       IN  IF Len(y) = SliceLen(buf, RSize(l.chunk_id))
           THEN /\ labels' = [labels EXCEPT
                              ![l.sel + 1] = SliceAssign(buf, RSize(l.chunk_id), y)]
                /\ loaders' = Step(l, "sleep")
                /\ slotChunk' = [slotChunk EXCEPT ![l.sel + 1] = l.chunk_id]
                /\ failedSlots' = failedSlots \ {l.sel}
                /\ UNCHANGED pc
           ELSE /\ LoadFails(l)
                /\ UNCHANGED <<labels, slotChunk>>
    /\ UNCHANGED <<cur_id, data_selector, data, i, bound, session, phase,
                   lastYield, out>>
    /\ UNCHANGED <<tree, wvars, fvars>>

\* _load, line 279: the sleep is over and the call returns
LoadExit(l) ==
    /\ l.pc = "sleep"
    /\ loaders' = loaders \ {l}
    /\ pc' = IF l.init THEN "head" ELSE pc
    /\ UNCHANGED <<cur_id, data_selector, data, labels, i, bound, session,
                   phase, lastYield, out, slotChunk, failedSlots>>
    /\ UNCHANGED <<tree, wvars, fvars>>

\* __iter__, lines 286-289: advance cur_id, start the background process (it
\* works on the state of the instance at the time of start) and evaluate the
\* range of the drain loop
Launch ==
    /\ pc = "head"
    /\ phase < MaxPhases
    /\ Cardinality(Background) < MaxProcs
    /\ cur_id' = NextFile(cur_id)
    /\ loaders' = loaders \cup
          {[id |-> <<session, phase + 1>>, chunk_id |-> cur_id',
            sel |-> Inverted(data_selector), pc |-> "read", init |-> FALSE]}
    /\ bound' = RSize(cur_id')
    /\ i' = 0
    /\ phase' = phase + 1
    /\ pc' = "drain"
    /\ UNCHANGED <<data_selector, data, labels, session, lastYield, out,
                   slotChunk, failedSlots>>
    /\ UNCHANGED <<tree, wvars, fvars>>

Draining == pc \in {"drain", "suspended"}

\* __iter__, line 290: one pull of the consumer
Yield ==
    /\ Draining
    /\ i < bound
    /\ LET pair == <<data[data_selector + 1][i + 1],
                     labels[data_selector + 1][i + 1]>>
       IN  /\ lastYield' = [slot |-> data_selector, i |-> i,
                            sample |-> pair[1], label |-> pair[2],
                            chunk |-> slotChunk[data_selector + 1],
                            afterFailure |-> data_selector \in failedSlots]
           /\ out' = IF phase <= n_files THEN Append(out, pair) ELSE out
    /\ i' = i + 1
    /\ pc' = "suspended"
    /\ UNCHANGED <<cur_id, data_selector, data, labels, bound, loaders,
                   session, phase, slotChunk, failedSlots>>
    /\ UNCHANGED <<tree, wvars, fvars>>

\* __iter__, line 292: the drain loop is over
Flip ==
    /\ Draining
    /\ i = bound
    /\ data_selector' = Inverted(data_selector)
    /\ pc' = "head"
    /\ UNCHANGED <<cur_id, data, labels, i, bound, loaders, session, phase,
                   lastYield, out, slotChunk, failedSlots>>
    /\ UNCHANGED <<tree, wvars, fvars>>

\* DataGenerator.__init__, lines 142-146; no generator yet
FeederIdle ==
    /\ self_steps = 0
    /\ loader_len = 0
    /\ fpc = "none"
    /\ steps = 0
    /\ lpos = 0
    /\ requested = 0
    /\ yielded = 0

\* a subclass sets self.loader; Scheduler.train calls data_feeder(steps),
\* line 114: the generator is created, its body has not run yet
FeederCall ==
    /\ fpc = "none"
    /\ \E len \in 1..MaxLoaderLen, s \in 0..MaxSteps :
          /\ loader_len' = len
          /\ steps' = s
          /\ requested' = s
    /\ fpc' = "pulled"
    /\ lpos' = 0
    /\ UNCHANGED <<self_steps, yielded>>
    /\ UNCHANGED <<tree, wvars, rvars>>

\* lines 149-150: the next item of the for loop, the while loop starting
\* the loader over when it is exhausted
NextItem(pos) == IF pos = loader_len THEN 1 ELSE pos + 1

\* lines 151-152: the test of one pull
FeederDone == self_steps = steps

\* one pull that ends the generator, lines 150-152
FeederReturn ==
    /\ fpc = "pulled"
    /\ FeederDone
    /\ lpos' = NextItem(lpos)
    /\ fpc' = "returned"
    /\ UNCHANGED <<self_steps, loader_len, steps, requested, yielded>>
    /\ UNCHANGED <<tree, wvars, rvars>>

\* one pull that hands out an item, lines 150-155
FeederYield ==
    /\ fpc = "pulled"
    /\ ~FeederDone
    /\ yielded < MaxPulls
    /\ lpos' = NextItem(lpos)
    /\ steps' = steps + 1
    /\ yielded' = yielded + 1
    /\ UNCHANGED <<self_steps, loader_len, fpc, requested>>
    /\ UNCHANGED <<tree, wvars, rvars>>

Init == WriterInit /\ ReaderIdle /\ FeederIdle

Next ==
    \/ SaveBegin
    \/ SaveNextPath
    \/ SaveFile
    \/ \E kind \in ErrorKinds : SaveFileFails(kind)
    \/ SaveEndDir
    \/ SaveDump
    \/ ReaderNew
    \/ IterStart
    \/ \E l \in loaders : LoadRead(l)
    \/ \E l \in loaders : LoadWriteData(l)
    \/ \E l \in loaders : LoadWriteLabels(l)
    \/ \E l \in loaders : LoadExit(l)
    \/ Launch
    \/ Yield
    \/ Flip

Spec == Init /\ [][Next]_vars

\* the writer alone
WriterNext ==
    \/ SaveBegin
    \/ SaveNextPath
    \/ SaveFile
    \/ \E kind \in ErrorKinds : SaveFileFails(kind)
    \/ SaveEndDir
    \/ SaveDump

SpecWriter == Init /\ [][WriterNext]_vars

\* the training loop alone, with no dataset being written or read
InitFeeder == Init /\ tree = <<>> /\ n = 0 /\ chunk_size = 1

FeederNext ==
    \/ FeederCall
    \/ FeederReturn
    \/ FeederYield

SpecFeeder == InitFeeder /\ [][FeederNext]_vars

\* the loader steps of the _load calls under way
LoaderNext ==
    \/ \E l \in loaders : LoadRead(l)
    \/ \E l \in loaders : LoadWriteData(l)
    \/ \E l \in loaders : LoadWriteLabels(l)
    \/ \E l \in loaders : LoadExit(l)

\* the first generator of the instance
IterFirst == session = 0 /\ IterStart

\* the caller keeps the writer's contract: n >= 1 is the true number of
\* source files, every file can be opened and transformed, and the root
\* holds non-empty class subdirectories only
InitContract ==
    /\ Init
    /\ n >= 1
    /\ FileCount = n
    /\ \A e \in 1..Len(tree) : tree[e] >= 1

\* one save, then one reader whose consumer keeps to its first iterator
SessionNext ==
    \/ SaveBegin
    \/ SaveNextPath
    \/ SaveFile
    \/ SaveEndDir
    \/ SaveDump
    \/ ReaderNew
    \/ IterFirst
    \/ LoaderNext
    \/ Launch
    \/ Yield
    \/ Flip

SpecSession == InitContract /\ [][SessionNext]_vars

\* the same session with a consumer that keeps pulling and loader
\* processes that the operating system keeps running: every _load has a
\* finite body (lines 270-279), and the generator's code between two
\* yields is straight-line (lines 284-292).  The save is one whose
\* chunk_sizes has no trailing 0 (line 183), the only saves that leave
\* every listed chunk record on disk
InitLive == InitContract /\ n % chunk_size # 0

SpecLive ==
    /\ InitLive
    /\ [][SessionNext]_vars
    /\ WF_vars(LoaderNext)
    /\ WF_vars(Launch)
    /\ WF_vars(Yield)
    /\ WF_vars(Flip)

\* ------------------------------------------------------------------ claims

\* the prefix of a slot holds exactly the records of chunk k
SlotHolds(s, k) ==
    /\ k \in DOMAIN xfiles
    /\ k \in DOMAIN yfiles
    /\ \A j \in 1..Len(xfiles[k]) :
          /\ j <= Len(data[s + 1])
          /\ data[s + 1][j] = xfiles[k][j]
          /\ labels[s + 1][j] = yfiles[k][j]

\* the writes of a _load call are still to come or under way
WritesPending(l) == l.pc \in {"read", "wdata", "wlabels"}

\* every chunk listed in the metadata has its records on storage
AllPresent ==
    \A k \in 0..(n_files - 1) : k \in DOMAIN xfiles /\ k \in DOMAIN yfiles

\* C1: every pair yielded has an index below the declared size of the chunk
\* most recently loaded into the slot it is read from.
C1_YieldWithinLoadedChunk ==
    (pc = "suspended" /\ lastYield.chunk >= 0)
        => lastYield.i < RSize(lastYield.chunk)

\* C2: when the drain loop over the active slot ends, as many samples have
\* been yielded (indices 0..size-1 in order) as the chunk held by the active
\* slot declares: the chunk is fully drained before the transition.
C2_ChunkFullyDrained ==
    (Draining /\ i = bound /\ slotChunk[data_selector + 1] >= 0)
        => i = RSize(slotChunk[data_selector + 1])

C6_CycleYieldsWrittenPairs ==
    (pc = "head" /\ phase = n_files /\ n >= 1 /\ FileCount = n
                 /\ Len(written) = n)
        => out = written

\* C7: no pair is yielded from a slot whose last load failed.
C7_NoYieldAfterFailedLoad ==
    pc = "suspended" => ~lastYield.afterFailure

C9_SessionStartsAtChunkZero ==
    (pc = "head" /\ phase = 0)
        => /\ SlotHolds(0, 0)
           /\ data_selector = 0
           /\ cur_id = 0

\* C10: the chunk sizes computed by the writer sum to n, and every non-final
\* one equals the chunk capacity.
C10_ChunkSizesPartition ==
    /\ Sum(chunk_sizes) = n
    /\ \A k \in 1..(Len(chunk_sizes) - 1) : chunk_sizes[k] = chunk_size

\* C10 witness: save has run on a partition of three or more chunks whose
\* final chunk is a proper remainder.
C10_Witness ==
    /\ wpc = "done"
    /\ Len(chunk_sizes) >= 3
    /\ n % chunk_size # 0
    /\ info.sizes = chunk_sizes

\* C11: once opening or transforming a source file has failed, neither the
\* metadata record nor the label lookup record is ever written (save ends
\* with the error).
C11_FailedFileAbortsSave ==
    xerr.kind # "none" => (info = NoInfo /\ lut = NoLut /\ wpc # "done")

\* the number of source files in the first e entries of the listing
FilesThrough(e) ==
    Sum([x \in 1..e |-> IF tree[x] = NotDir THEN 0 ELSE tree[x]])

\* the number of class subdirectories among the first e entries
DirsThrough(e) == Cardinality({x \in 1..e : tree[x] # NotDir})

\* the entry of the k-th class subdirectory of the listing (k = 1, 2, ...)
NthDir(k) ==
    CHOOSE e \in 1..Len(tree) : tree[e] # NotDir /\ DirsThrough(e) = k

\* the entry of the class subdirectory holding the g-th source file
DirOfFile(g) ==
    CHOOSE e \in 1..Len(tree) :
        tree[e] # NotDir /\ FilesThrough(e - 1) < g /\ g <= FilesThrough(e)

\* C12: when save has ended, the keys of the label lookup are 0..k-1 for
\* the k class subdirectories visited, key j naming the (j+1)-th
\* subdirectory of the listing (plain files take no id), and every label in
\* a flushed chunk is a key naming the subdirectory its sample came from.
C12_LabelIdsDense ==
    wpc \in {"done", "raised"} =>
        /\ DOMAIN labels_lookup = 0..(DirsThrough(ent) - 1)
        /\ \A id \in DOMAIN labels_lookup : labels_lookup[id] = NthDir(id + 1)
        /\ \A k \in DOMAIN xfiles : \A j \in 1..Len(xfiles[k]) :
              /\ yfiles[k][j] \in DOMAIN labels_lookup
              /\ labels_lookup[yfiles[k][j]] = DirOfFile(xfiles[k][j])
        /\ wpc = "done" => lut = <<labels_lookup>>

\* C12 witness: save has returned after a listing that starts with a plain
\* file followed by a class subdirectory, and has flushed a chunk.
C12_Witness ==
    /\ wpc = "done"
    /\ Len(tree) = 2
    /\ tree[1] = NotDir
    /\ tree[2] >= 1
    /\ flushed # <<>>
    /\ labels_lookup = (0 :> 2)

\* C13: the selector never designates as active a slot that a background
\* load still in flight has as its target.
C13_ActiveSlotNotLoading == \A l \in Background : l.sel # data_selector

\* the number of times chunk k was flushed
FlushCount(k) == Cardinality({j \in 1..Len(flushed) : flushed[j] = k})

\* C14: when n >= 1 is the true number of source files and none of them
\* fails, then after save has returned every index of the chunk sizes in the
\* metadata has its data record and its label record on storage, flushed
\* exactly once, each holding as many samples as the metadata declares.
C14_EveryListedChunkFlushed ==
    (wpc = "done" /\ n >= 1 /\ FileCount = n /\ xerr = NoError)
        => \A k \in 0..(Len(info.sizes) - 1) :
              /\ k \in DOMAIN xfiles
              /\ k \in DOMAIN yfiles
              /\ FlushCount(k) = 1
              /\ Len(xfiles[k]) = info.sizes[k + 1]
              /\ Len(yfiles[k]) = info.sizes[k + 1]

\* what no step of a _load call touches
LoadKeeps(l) ==
    /\ data'[2 - l.sel] = data[2 - l.sel]
    /\ labels'[2 - l.sel] = labels[2 - l.sel]
    /\ \A j \in 1..Len(data[l.sel + 1]) :
          j > RSize(l.chunk_id) =>
              /\ data'[l.sel + 1][j] = data[l.sel + 1][j]
              /\ labels'[l.sel + 1][j] = labels[l.sel + 1][j]
    /\ data_selector' = data_selector
    /\ cur_id' = cur_id

\* C16: a _load of chunk c into a slot (the step of line 277, recognised by
\* the call moving on to line 278, and the step of line 278, by the call
\* moving on to the sleep) sets the prefix [0, chunk_sizes[c]) of the slot's
\* data, then of its labels, to the chunk's records; the rest of that slot,
\* the other slot, the selector and the current chunk index are unchanged.
C16_LoadFrame ==
    [][\A l \in loaders :
          /\ (l.pc = "wdata" /\ loaders' = Step(l, "wlabels")) =>
                /\ LoadKeeps(l)
                /\ labels' = labels
                /\ \A j \in 1..RSize(l.chunk_id) :
                      data'[l.sel + 1][j] = xfiles[l.chunk_id][j]
          /\ (l.pc = "wlabels" /\ loaders' = Step(l, "sleep")) =>
                /\ LoadKeeps(l)
                /\ data' = data
                /\ \A j \in 1..RSize(l.chunk_id) :
                      labels'[l.sel + 1][j] = yfiles[l.chunk_id][j]
      ]_vars

\* C16 witness: a background load has written a chunk shorter than the slot
\* over a longer one, whose last sample is still in the slot.
C16_Witness ==
    \E l \in Background :
        /\ l.pc = "sleep"
        /\ RSize(l.chunk_id) < Capacity
        /\ data[l.sel + 1][Capacity] > 0
        /\ data[l.sel + 1][1] = xfiles[l.chunk_id][1]

\* a pull is being served: the generator runs between two yields
PullPending ==
    \/ pc = "init"
    \/ pc = "drain"
    \/ pc = "head" /\ phase < MaxPhases

\* _next_file, lines 258-262, as the specification words it
WrapsAround(id) == IF id = n_files - 1 THEN 0 ELSE id + 1

C17_FeederYieldsSteps ==
    /\ yielded <= requested
    /\ fpc = "returned" => yielded = requested

\* the number of samples held in the chunk records flushed so far
FlushedSamples == Sum([j \in 1..Len(flushed) |-> Len(xfiles[flushed[j]])])

\* every chunk record on disk carries an index of chunk_sizes
RecordsInRange ==
    /\ \A j \in 1..Len(flushed) : flushed[j] \in 0..(Len(chunk_sizes) - 1)
    /\ DOMAIN xfiles \subseteq 0..(Len(chunk_sizes) - 1)
    /\ DOMAIN yfiles \subseteq 0..(Len(chunk_sizes) - 1)

\* the source files save could open and transform: all of them, or those
\* before the one that raised
Available == IF xerr = NoError THEN FileCount ELSE xerr.at - 1

\* C18 as stated: whenever save returns normally, whatever the relation of
\* n to the number of source files, the flushed records hold n samples and
\* none has an index outside chunk_sizes (here for saves in which no file
\* failed to open or transform).
C18_FlushedEqualsDeclared ==
    (wpc = "done" /\ xerr = NoError) =>
        (FlushedSamples = info.n /\ RecordsInRange)

\* C18, amended: whenever save returns normally, no chunk record has an
\* index outside chunk_sizes; the flushed records hold n samples when at
\* least n source files could be opened and transformed, and otherwise
\* only the samples of the chunks those files fill completely, fewer than
\* the n written in the metadata.
C18_FlushedEqualsDeclaredIfEnoughFiles ==
    wpc = "done" =>
        /\ RecordsInRange
        /\ info.n = n
        /\ Available >= n => FlushedSamples = n
        /\ Available < n =>
              /\ FlushedSamples = (Available \div chunk_size) * chunk_size
              /\ FlushedSamples < n

C18_Witness ==
    /\ wpc = "done"
    /\ xerr = NoError
    /\ n >= 2
    /\ FileCount > n
    /\ Len(flushed) >= 2
    /\ FlushedSamples = n


====
